---------------------------- MODULE Spec2Model ----------------------------
(***************************************************************************)
(* State-machine model of the dmetrics-go Darwin telemetry core:           *)
(*   - the CPU tick sampler of internal/cpu/darwin/cpu.c                   *)
(*     (get_cpu_stats, get_cpu_core_stats, cleanup_cpu_stats,              *)
(*      init_cpu_stats) with its process-wide previous snapshot and mutex; *)
(*   - the SMC client of internal/power/darwin/power.c                     *)
(*     (init_smc, close_smc, get_smc_float, decode_smc_float).             *)
(***************************************************************************)
EXTENDS Integers, Sequences, FiniteSets, TLC

(***************************************************************************)
(* Bounds of the model.                                                    *)
(***************************************************************************)
\* Logical CPUs reported by host_processor_info.
NCPU == 2
\* Snapshot buffers host_processor_info can hand out before it fails, in
\* the concurrent and in the single-caller specification.
MaxBufs == 2
SeqMaxBufs == 3
\* Handles IOServiceOpen can hand out before it fails.
MaxOpens == 2
\* Modulus of one tick counter (unsigned, scaled down from 2^32).
TickModulus == 128
\* VM page size in bytes (scaled down).
PAGE_SIZE == 16
\* the depth of recursion up to which SpecLive counts
LiveDepth == 2

(***************************************************************************)
(* Program constants.                                                      *)
(***************************************************************************)
CPU_SUCCESS == 0
CPU_ERROR_MEMORY == -1
CPU_ERROR_HOST_PROCESSOR_INFO == -3
CPU_ERROR_MUTEX == -4
\* usleep(500000) on the priming path.
SETTLE_USEC == 500000
\* sizeof(natural_t)
SizeofNatural == 4

SMC_CMD_READ_KEY == 5
SMC_CMD_READ_KEYINFO == 9
SMC_TYPE_FP1F == 1718628710  \* 0x66703166
SMC_TYPE_FP4C == 1718629475  \* 0x66703463
SMC_TYPE_FP5B == 1718629739  \* 0x6670356B
SMC_TYPE_FP6A == 1718629985  \* 0x66703661
SMC_TYPE_FP79 == 1718630201  \* 0x66703739
SMC_TYPE_FP88 == 1718630456  \* 0x66703838
SMC_TYPE_FPA6 == 1718640950  \* 0x66706136
SMC_TYPE_FPC4 == 1718641460  \* 0x66706334
SMC_TYPE_FPE2 == 1718641970  \* 0x66706532
SMC_SUCCESS == 0
SMC_ERROR_NO_SERVICE == 2
SMC_ERROR_OPEN_FAILED == 3
SMC_ERROR_INVALID_ARGS == 4
SMC_ERROR_INIT_FAILED == 5
SMC_SEVERITY_INFO == 0
SMC_SEVERITY_ERROR == 2
\* sizeof(cmd->data)
SMC_DATA_LEN == 32

\* The four tick states of one core, in cpu_ticks[] order.
CPU_STATES == <<"user", "system", "idle", "nice">>
CPU_STATE_MAX == Len(CPU_STATES)

NULL == 0
NoThread == 0
\* Threads of the concurrent specification, and of the single-caller one.
Threads == {1, 2}
SeqThreads == {1}

VARIABLES
  prev_info_array,   \* cpu.c static: buffer id of the stored snapshot, or NULL
  prev_info_count,   \* cpu.c static: its count of natural_t
  num_cpus,          \* cpu.c static: written by host_processor_info
  cpu_mutex,         \* cpu.c static: the thread holding it, or NoThread
  vm,                \* snapshot buffers handed out by host_processor_info
  clock,             \* microseconds slept so far
  crashed,           \* the process was killed by a fault
  pc,                \* per thread: position in the running call
  fr,                \* per thread: arguments, locals and result of the call
  g_smc_conn,        \* power.c static: connection, error, lock, limited_mode
  power_keys,        \* power.c statics kPowerSource*Key: held or NULL
  io_open,           \* device handles the kernel holds open for the task
  io_opened,         \* number of handles IOServiceOpen has handed out
  spc,               \* per SMC thread: position in the running call
  sfr,               \* per SMC thread: arguments, locals and result
  user_conn,         \* an smc_connection_t a caller owns and passes in
  dec,               \* the last call of decode_smc_float and its result
  enc                \* the last key encoding of read_smc_key and its result

cpuVars == <<prev_info_array, prev_info_count, num_cpus, cpu_mutex, vm,
             clock, crashed, pc, fr>>
smcVars == <<g_smc_conn, power_keys, io_open, io_opened, spc, sfr, user_conn>>
decVars == <<dec, enc>>
vars == <<cpuVars, smcVars, decVars>>

(***************************************************************************)
(* Values.                                                                 *)
(***************************************************************************)
RECURSIVE GCD(_, _)
GCD(a, b) == IF b = 0 THEN a ELSE GCD(b, a % b)

\* A percentage as the exact quotient n/d in lowest terms (the doubles of
\* the code carry it to within rounding).
Rat(n, d) == LET g == GCD(n, d) IN [n |-> n \div g, d |-> d \div g]
RatAdd(p, q) == Rat(p.n * q.d + q.n * p.d, p.d * q.d)
Lit(k) == Rat(k, 1)

ZeroTicks == [s \in 1..CPU_STATE_MAX |-> 0]
ZeroSnap == [i \in 1..NCPU |-> ZeroTicks]

\* Tick tuples <<user, system, idle, nice>> a core can report.
TickTuples == { <<0, 0, 0, 0>>, <<10, 5, 85, 0>>, <<12, 5, 85, 0>> }
\* What the tick query can return: in the single-caller specification every
\* tuple on all cores alike and one snapshot whose cores differ, in the
\* concurrent one a single snapshot.
UniformSnap(tup) == [i \in 1..NCPU |-> tup]
MixedSnap == [i \in 1..NCPU |-> IF i = 1 THEN <<10, 5, 85, 0>> ELSE <<0, 0, 0, 0>>]
SeqSnapshots == {UniformSnap(tup) : tup \in TickTuples} \cup {MixedSnap}
ConcSnapshots == {ZeroSnap}

CoreStats(u, s, i, n) == [user |-> u, system |-> s, idle |-> i, nice |-> n]
\* Contents of the caller's output buffer before the call.
FreshStats == [i \in 1..NCPU |-> CoreStats(Lit(0), Lit(0), Lit(0), Lit(0))]
StaleStats == [i \in 1..NCPU |-> CoreStats(Lit(50), Lit(25), Lit(25), Lit(0))]
SeqOutBufs == {FreshStats, StaleStats}
ConcOutBufs == {FreshStats}

SampleOps == {"get_cpu_stats", "get_cpu_core_stats"}

\* What a specification fixes: the snapshots the tick query can return, the
\* output buffers callers pass, the time charged for the settle wait, the
\* number of buffers, and whether the history of a call is recorded.
ConcCfg == [snaps |-> ConcSnapshots, outs |-> ConcOutBufs, nap |-> 0,
            maxb |-> MaxBufs, hist |-> FALSE]
SeqCfg == [snaps |-> SeqSnapshots, outs |-> SeqOutBufs, nap |-> SETTLE_USEC,
           maxb |-> SeqMaxBufs, hist |-> TRUE]
Hist(cfg, v, dflt) == IF cfg.hist THEN v ELSE dflt

NoFrame ==
  [op |-> "none", stats_null |-> FALSE, num_cores_null |-> FALSE,
   stats |-> FreshStats, num_cores |-> -1,
   info_array |-> NULL, info_count |-> 0, prev_cpu_load |-> NULL,
   depth |-> 0, ret |-> CPU_SUCCESS,
   \* history of the call, read by the properties only
   old_stats |-> FreshStats, entry_prev |-> NULL,
   used_prev |-> ZeroSnap, used_cur |-> ZeroSnap,
   at_prev |-> 0, at_cur |-> 0, at_base |-> -1, ncores_used |-> 0,
   stale_read |-> FALSE, old_prev |-> NULL, captured |-> NULL,
   lock_rc |-> 0, query_failed |-> FALSE]

RoundPage(n) == ((n + PAGE_SIZE - 1) \div PAGE_SIZE) * PAGE_SIZE
Min(a, b) == IF a < b THEN a ELSE b
Max(a, b) == IF a < b THEN b ELSE a

(***************************************************************************)
(* Initial state: the statics of cpu.c as the loader leaves them.          *)
(***************************************************************************)
CpuInit ==
  /\ prev_info_array = NULL
  /\ prev_info_count = 0
  /\ num_cpus = 0
  /\ cpu_mutex = NoThread
  /\ vm = << >>
  /\ clock = 0
  /\ crashed = FALSE
  /\ pc = [t \in Threads |-> "idle"]
  /\ fr = [t \in Threads |-> NoFrame]

(***************************************************************************)
(* Platform primitives.                                                    *)
(***************************************************************************)
\* vm_deallocate(task, address, size): releases the pages covering size
\* bytes from address; the contents are gone.
VmDeallocate(mem, b, size) ==
  IF b = NULL THEN mem
  ELSE [mem EXCEPT ![b] =
          [@ EXCEPT !.released = Max(@, Min(RoundPage(mem[b].bytes), RoundPage(size))),
                    !.frees = @ + 1,
                    !.ticks = ZeroSnap]]

\* An unlock that releases nothing (to test the properties, not the
\* program).
MutexUnlockKept(t) == { <<cpu_mutex, 0>> }

\* pthread_mutex_unlock by thread t: the owner releases; a thread that does
\* not own the mutex is undefined behaviour for a default mutex, and either
\* gets an error with the mutex untouched or releases it all the same.
\* The result is a set of <<holder after, return value>>.
MutexUnlock(t) ==
  IF cpu_mutex = t THEN { <<NoThread, 0>> }
  ELSE { <<cpu_mutex, 1>>, <<NoThread, 0>> }

\* Reading the ticks of buffer b: a released buffer is undefined behaviour
\* and reads as anything the query could have produced.
BufTicks(b, snaps) ==
  IF vm[b].frees = 0 THEN {vm[b].ticks} ELSE snaps

Live(t) == ~crashed /\ pc[t] # "crashed"

Set(t, f) == fr' = [fr EXCEPT ![t] = f]
Goto(t, l) == pc' = [pc EXCEPT ![t] = l]

(***************************************************************************)
(* A caller enters one of the four public operations.  The sample          *)
(* operations first test their arguments (cpu.c 163-164, 286-287).         *)
(***************************************************************************)
CallSample(t, cfg) ==
  /\ Live(t) /\ pc[t] \in {"idle", "ret"}
  /\ \E op \in SampleOps, sn \in BOOLEAN, nn \in BOOLEAN, buf \in cfg.outs :
       /\ op = "get_cpu_stats" => ~nn
       /\ LET f == [NoFrame EXCEPT !.op = op, !.stats_null = sn,
                                   !.num_cores_null = nn, !.stats = buf,
                                   !.old_stats = buf,
                                   !.entry_prev =
                                      Hist(cfg, prev_info_array, NULL)]
          IN IF sn \/ nn
             THEN /\ Set(t, [f EXCEPT !.ret = CPU_ERROR_MEMORY])
                  /\ Goto(t, "ret")
             ELSE /\ Set(t, f)
                  /\ Goto(t, "lock")
  /\ UNCHANGED <<prev_info_array, prev_info_count, num_cpus, cpu_mutex, vm,
                 clock, crashed>>
  /\ UNCHANGED <<smcVars, decVars>>

CallCleanup(t, cfg) ==
  /\ Live(t) /\ pc[t] \in {"idle", "ret"}
  /\ Set(t, [NoFrame EXCEPT !.op = "cleanup_cpu_stats",
                            !.entry_prev = Hist(cfg, prev_info_array, NULL)])
  /\ Goto(t, "lock")
  /\ UNCHANGED <<prev_info_array, prev_info_count, num_cpus, cpu_mutex, vm,
                 clock, crashed>>
  /\ UNCHANGED <<smcVars, decVars>>

CallInit(t, cfg) ==
  /\ Live(t) /\ pc[t] \in {"idle", "ret"}
  /\ Set(t, [NoFrame EXCEPT !.op = "init_cpu_stats",
                            !.entry_prev = Hist(cfg, prev_info_array, NULL)])
  /\ Goto(t, "in_mutex")
  /\ UNCHANGED <<prev_info_array, prev_info_count, num_cpus, cpu_mutex, vm,
                 clock, crashed>>
  /\ UNCHANGED <<smcVars, decVars>>

(***************************************************************************)
(* pthread_mutex_lock(&cpu_mutex): blocks until the mutex is free.         *)
(***************************************************************************)
Lock(t) ==
  /\ Live(t) /\ pc[t] = "lock"
  /\ cpu_mutex = NoThread
  /\ cpu_mutex' = t
  /\ Goto(t, IF fr[t].op = "cleanup_cpu_stats" THEN "cl_body" ELSE "query")
  /\ UNCHANGED <<prev_info_array, prev_info_count, num_cpus, vm, clock,
                 crashed, fr>>
  /\ UNCHANGED <<smcVars, decVars>>

\* pthread_mutex_lock returns an error (EINVAL on a mutex that is no longer
\* valid, as after a pthread_mutex_init on a mutex in use).  get_cpu_stats
\* returns CPU_ERROR_MUTEX (166-170); get_cpu_core_stats (289) and
\* cleanup_cpu_stats (276) drop the result and go on without the mutex.
LockFail(t) ==
  /\ Live(t) /\ pc[t] = "lock"
  /\ IF fr[t].op = "get_cpu_stats"
       THEN /\ Set(t, [fr[t] EXCEPT !.lock_rc = 1, !.ret = CPU_ERROR_MUTEX])
            /\ Goto(t, "ret")
       ELSE /\ Set(t, [fr[t] EXCEPT !.lock_rc = 1])
            /\ Goto(t, IF fr[t].op = "cleanup_cpu_stats"
                         THEN "cl_body" ELSE "query")
  /\ UNCHANGED <<prev_info_array, prev_info_count, num_cpus, cpu_mutex, vm,
                 clock, crashed>>
  /\ UNCHANGED <<smcVars, decVars>>

(***************************************************************************)
(* host_processor_info: a fresh buffer holding the current ticks, and      *)
(* num_cpus; or a failure, on which the call unlocks and returns.          *)
(***************************************************************************)
QueryOk(t, cfg) ==
  /\ Live(t) /\ pc[t] = "query"
  /\ Len(vm) < cfg.maxb
  /\ \E snap \in cfg.snaps :
       LET cnt == NCPU * CPU_STATE_MAX
       IN /\ vm' = Append(vm, [ticks |-> snap, count |-> cnt,
                               bytes |-> cnt * SizeofNatural,
                               released |-> 0, frees |-> 0, at |-> clock])
          /\ num_cpus' = NCPU
          /\ Set(t, [fr[t] EXCEPT !.info_array = Len(vm) + 1,
                                  !.info_count = cnt])
  /\ Goto(t, "check")
  /\ UNCHANGED <<prev_info_array, prev_info_count, cpu_mutex, clock, crashed>>
  /\ UNCHANGED <<smcVars, decVars>>

QueryFail(t) ==
  /\ Live(t) /\ pc[t] = "query"
  /\ \E out \in MutexUnlock(t) : cpu_mutex' = out[1]
  /\ Set(t, [fr[t] EXCEPT !.ret = CPU_ERROR_HOST_PROCESSOR_INFO,
                          !.query_failed = TRUE,
                          !.info_array = NULL, !.info_count = 0])
  /\ Goto(t, "ret")
  /\ UNCHANGED <<prev_info_array, prev_info_count, num_cpus, vm, clock,
                 crashed>>
  /\ UNCHANGED <<smcVars, decVars>>

(***************************************************************************)
(* if (!prev_info_array): store the buffer as the baseline (priming path), *)
(* else take the stored buffer as prev_cpu_load.                           *)
(***************************************************************************)
Check(t, cfg) ==
  /\ Live(t) /\ pc[t] = "check"
  /\ IF prev_info_array = NULL
     THEN /\ prev_info_array' = fr[t].info_array
          /\ prev_info_count' = fr[t].info_count
          /\ Set(t, [fr[t] EXCEPT
                       !.at_base = Hist(cfg, vm[fr[t].info_array].at, @)])
          /\ Goto(t, "prime_unlock")
     ELSE /\ Set(t, [fr[t] EXCEPT !.prev_cpu_load = prev_info_array])
          /\ Goto(t, "compute")
          /\ UNCHANGED <<prev_info_array, prev_info_count>>
  /\ UNCHANGED <<num_cpus, cpu_mutex, vm, clock, crashed>>
  /\ UNCHANGED <<smcVars, decVars>>

\* (mutant) the wait starts with the mutex still held
PrimeUnlockHeld(t) ==
  /\ Live(t) /\ pc[t] = "prime_unlock"
  /\ Goto(t, "sleep")
  /\ UNCHANGED <<prev_info_array, prev_info_count, num_cpus, cpu_mutex, vm,
                 clock, crashed, fr>>
  /\ UNCHANGED <<smcVars, decVars>>

\* Priming path: pthread_mutex_unlock before the wait.
PrimeUnlock(t) ==
  /\ Live(t) /\ pc[t] = "prime_unlock"
  /\ \E out \in MutexUnlock(t) : cpu_mutex' = out[1]
  /\ Goto(t, "sleep")
  /\ UNCHANGED <<prev_info_array, prev_info_count, num_cpus, vm, clock,
                 crashed, fr>>
  /\ UNCHANGED <<smcVars, decVars>>

\* (mutant) the retry follows at once, without the wait
SleepSkipped(t, cfg) ==
  /\ Live(t) /\ pc[t] = "sleep"
  /\ Set(t, [fr[t] EXCEPT !.depth = @ + 1, !.info_array = NULL,
                          !.info_count = 0])
  /\ Goto(t, "lock")
  /\ UNCHANGED <<prev_info_array, prev_info_count, num_cpus, cpu_mutex, vm,
                 clock, crashed>>
  /\ UNCHANGED <<smcVars, decVars>>

\* usleep(500000), then the call re-invokes itself; the specification
\* charges cfg.nap for the wait.
Sleep(t, cfg) ==
  /\ Live(t) /\ pc[t] = "sleep"
  /\ clock' = clock + cfg.nap
  /\ Set(t, [fr[t] EXCEPT !.depth = @ + 1, !.info_array = NULL,
                          !.info_count = 0])
  /\ Goto(t, "lock")
  /\ UNCHANGED <<prev_info_array, prev_info_count, num_cpus, cpu_mutex, vm,
                 crashed>>
  /\ UNCHANGED <<smcVars, decVars>>

(***************************************************************************)
(* Per-core deltas and percentages (cpu.c 202-219, 319-343).               *)
(***************************************************************************)
\* cur - prev of one unsigned tick counter: the difference wraps.
TickDelta(cur, prv) == (cur - prv + TickModulus) % TickModulus

\* What the loop body leaves in stats[i] when total is 0: get_cpu_core_stats
\* has the else branch, get_cpu_stats writes nothing.
ZeroTotalStats(op, old) ==
  IF op = "get_cpu_core_stats"
  THEN CoreStats(Lit(0), Lit(0), Lit(100), Lit(0))
  ELSE old

\* (mutant) the ratio is not scaled to a percentage
PercentOfUnscaled(delta, total) == Rat(delta, total)

\* (double)delta / total * 100.0
PercentOf(delta, total) == Rat(delta * 100, total)

CoreCalc(op, cur, prv, old) ==
  LET user   == TickDelta(cur[1], prv[1])
      system == TickDelta(cur[2], prv[2])
      idle   == TickDelta(cur[3], prv[3])
      nice   == TickDelta(cur[4], prv[4])
      total  == user + system + idle + nice
  IN IF total > 0
     THEN CoreStats(PercentOf(user, total), PercentOf(system, total),
                    PercentOf(idle, total), PercentOf(nice, total))
     ELSE ZeroTotalStats(op, old)

\* The loop over i < num_cpus, then *num_cores = num_cpus (line 345).
Compute(t, cfg) ==
  /\ Live(t) /\ pc[t] = "compute"
  /\ \E prv \in BufTicks(fr[t].prev_cpu_load, cfg.snaps),
        cur \in BufTicks(fr[t].info_array, cfg.snaps) :
       Set(t, [fr[t] EXCEPT
                 !.stats = [i \in 1..NCPU |->
                              IF i <= num_cpus
                              THEN CoreCalc(fr[t].op, cur[i], prv[i], @[i])
                              ELSE @[i]],
                 !.num_cores = IF fr[t].op = "get_cpu_core_stats"
                               THEN num_cpus ELSE @,
                 !.used_prev = Hist(cfg, prv, @),
                 !.used_cur = Hist(cfg, cur, @),
                 !.at_prev = Hist(cfg, vm[fr[t].prev_cpu_load].at, @),
                 !.at_cur = Hist(cfg, vm[fr[t].info_array].at, @),
                 !.ncores_used = Hist(cfg, num_cpus, @),
                 !.stale_read = \/ vm[fr[t].prev_cpu_load].frees > 0
                                \/ vm[fr[t].info_array].frees > 0])
  /\ Goto(t, "swap")
  /\ UNCHANGED <<prev_info_array, prev_info_count, num_cpus, cpu_mutex, vm,
                 clock, crashed>>
  /\ UNCHANGED <<smcVars, decVars>>

\* Reading a released buffer can also fault: the process dies.
ComputeFault(t) ==
  /\ Live(t) /\ pc[t] = "compute"
  /\ \/ vm[fr[t].prev_cpu_load].frees > 0
     \/ vm[fr[t].info_array].frees > 0
  /\ crashed' = TRUE
  /\ Goto(t, "crashed")
  /\ UNCHANGED <<prev_info_array, prev_info_count, num_cpus, cpu_mutex, vm,
                 clock, fr>>
  /\ UNCHANGED <<smcVars, decVars>>

(***************************************************************************)
(* vm_deallocate of the stored buffer, then the current one becomes the    *)
(* stored one (cpu.c 221-225, 347-353).  get_cpu_stats passes the count as *)
(* the size, get_cpu_core_stats the count times sizeof(natural_t).         *)
(***************************************************************************)
DeallocSize(op, count) ==
  IF op = "get_cpu_core_stats" THEN count * SizeofNatural ELSE count

\* A sample that releases the stored buffer and stores none (to test the
\* properties, not the program).
SwapStoresNone(t, cfg) ==
  /\ Live(t) /\ pc[t] = "swap"
  /\ vm' = VmDeallocate(vm, prev_info_array,
                        DeallocSize(fr[t].op, prev_info_count))
  /\ prev_info_array' = NULL
  /\ prev_info_count' = 0
  /\ Set(t, [fr[t] EXCEPT !.old_prev = Hist(cfg, prev_info_array, @),
                          !.captured = Hist(cfg, fr[t].info_array, @)])
  /\ Goto(t, "unlock")
  /\ UNCHANGED <<num_cpus, cpu_mutex, clock, crashed>>
  /\ UNCHANGED <<smcVars, decVars>>

Swap(t, cfg) ==
  /\ Live(t) /\ pc[t] = "swap"
  /\ vm' = VmDeallocate(vm, prev_info_array,
                        DeallocSize(fr[t].op, prev_info_count))
  /\ prev_info_array' = fr[t].info_array
  /\ prev_info_count' = fr[t].info_count
  /\ Set(t, [fr[t] EXCEPT !.old_prev = Hist(cfg, prev_info_array, @),
                          !.captured = Hist(cfg, fr[t].info_array, @)])
  /\ Goto(t, "unlock")
  /\ UNCHANGED <<num_cpus, cpu_mutex, clock, crashed>>
  /\ UNCHANGED <<smcVars, decVars>>

\* The final unlock; get_cpu_stats alone tests its result (227-231).
UnlockResult(op, rc) ==
  IF op = "get_cpu_stats" /\ rc # 0 THEN CPU_ERROR_MUTEX ELSE CPU_SUCCESS

Unlock(t) ==
  /\ Live(t) /\ pc[t] = "unlock"
  /\ \E out \in MutexUnlock(t) :
       /\ cpu_mutex' = out[1]
       /\ Set(t, [fr[t] EXCEPT !.ret = UnlockResult(fr[t].op, out[2]),
                               !.info_array = NULL, !.info_count = 0,
                               !.prev_cpu_load = NULL])
  /\ Goto(t, "ret")
  /\ UNCHANGED <<prev_info_array, prev_info_count, num_cpus, vm, clock,
                 crashed>>
  /\ UNCHANGED <<smcVars, decVars>>

(***************************************************************************)
(* cleanup_cpu_stats (cpu.c 275-283), after its lock.                      *)
(***************************************************************************)
CleanupBody(t, cfg) ==
  /\ Live(t) /\ pc[t] = "cl_body"
  /\ IF prev_info_array # NULL
     THEN /\ vm' = VmDeallocate(vm, prev_info_array,
                                DeallocSize(fr[t].op, prev_info_count))
          /\ prev_info_array' = NULL
     ELSE UNCHANGED <<vm, prev_info_array>>
  /\ Set(t, [fr[t] EXCEPT !.old_prev = Hist(cfg, prev_info_array, @)])
  /\ Goto(t, "cl_unlock")
  /\ UNCHANGED <<prev_info_count, num_cpus, cpu_mutex, clock, crashed>>
  /\ UNCHANGED <<smcVars, decVars>>

CleanupUnlock(t) ==
  /\ Live(t) /\ pc[t] = "cl_unlock"
  /\ \E out \in MutexUnlock(t) : cpu_mutex' = out[1]
  /\ Goto(t, "ret")
  /\ UNCHANGED <<prev_info_array, prev_info_count, num_cpus, vm, clock,
                 crashed, fr>>
  /\ UNCHANGED <<smcVars, decVars>>

(***************************************************************************)
(* init_cpu_stats (cpu.c 376-384): no lock is taken.                       *)
(***************************************************************************)
\* pthread_mutex_init on the live mutex: initialising a locked mutex is
\* undefined behaviour; it is reset to unlocked, or left as it is.
MutexInit ==
  IF cpu_mutex = NoThread THEN {NoThread} ELSE {NoThread, cpu_mutex}

InitMutex(t) ==
  /\ Live(t) /\ pc[t] = "in_mutex"
  /\ cpu_mutex' \in MutexInit
  /\ Goto(t, "in_store")
  /\ UNCHANGED <<prev_info_array, prev_info_count, num_cpus, vm, clock,
                 crashed, fr>>
  /\ UNCHANGED <<smcVars, decVars>>

InitStore(t) ==
  /\ Live(t) /\ pc[t] = "in_store"
  /\ prev_info_array' = NULL
  /\ prev_info_count' = 0
  /\ num_cpus' = 0
  /\ Goto(t, "ret")
  /\ UNCHANGED <<cpu_mutex, vm, clock, crashed, fr>>
  /\ UNCHANGED <<smcVars, decVars>>

(***************************************************************************)
(* Specifications of the sampler.                                          *)
(***************************************************************************)
\* The steps a thread can take, but for the fault.
Step(t, cfg) ==
  \/ CallSample(t, cfg)
  \/ CallCleanup(t, cfg)
  \/ CallInit(t, cfg)
  \/ Lock(t)
  \/ QueryOk(t, cfg)
  \/ QueryFail(t)
  \/ Check(t, cfg)
  \/ PrimeUnlock(t)
  \/ Sleep(t, cfg)
  \/ Compute(t, cfg)
  \/ Swap(t, cfg)
  \/ Unlock(t)
  \/ CleanupBody(t, cfg)
  \/ CleanupUnlock(t)
  \/ InitMutex(t)
  \/ InitStore(t)

SmcThreads == {1, 2}

\* "PC0C", SMC_KEY_CPU_POWER
KEY_PC0C == <<80, 67, 48, 67>>
SmcKeys == {KEY_PC0C}

ZeroData == [i \in 1..SMC_DATA_LEN |-> 0]
Payload(d0, d1) == [ZeroData EXCEPT ![1] = d0, ![2] = d1]
\* memset(&cmd, 0, sizeof(cmd))
ZeroCmd == [key |-> 0, cmd |-> 0, keyInfo |-> 0, data |-> ZeroData]

\* What the controller can leave in the command buffer, which is input and
\* output of the exchange alike: the key as sent or cleared, a type tag and
\* a payload.
Responses ==
  { [key_kept |-> TRUE, keyInfo |-> SMC_TYPE_FP88, data |-> Payload(1, 128)],
    [key_kept |-> TRUE, keyInfo |-> 0, data |-> Payload(68, 0)],
    [key_kept |-> FALSE, keyInfo |-> 0, data |-> Payload(68, 0)] }

\* "PCGC", SMC_KEY_GPU_POWER
KEY_PCGC == <<80, 67, 71, 67>>
\* The operations that read a key.
ReadOps == {"get_smc_float", "get_system_power_info"}

\* system_power_t as callers pass it: zeroed, or holding an earlier result.
PowerOf(c, g, tot) == [cpu_power |-> c, gpu_power |-> g, total_power |-> tot]
ZeroPower == PowerOf(Lit(0), Lit(0), Lit(0))
PowerBufs == {ZeroPower, PowerOf(Lit(7), Lit(3), Lit(10))}

\* smc_init_options_t (timeout_ms is not read by the code).
NoOptions == [allow_limited_mode |-> FALSE, skip_power_keys |-> FALSE]
InitOptions == [allow_limited_mode : BOOLEAN, skip_power_keys : BOOLEAN]
\* smc_error_info_t before get_smc_error_info has written it.
NoError == [code |-> -1, severity |-> -1]

\* The caller's float before the call has written it.
NoValue == [n |-> 0, d |-> 0]

NoSmcFrame ==
  [op |-> "none", key |-> <<>>, key_null |-> FALSE, value_null |-> FALSE, value |-> NoValue,
   cmd |-> ZeroCmd, success |-> FALSE, ret |-> FALSE,
   x_info |-> -1, x_read |-> -1, sent_data |-> ZeroData,
   \* of the two-phase read, for the properties only: the commands sent,
   \* the message logged, the keys sent and the type the info phase reported
   cmds |-> <<>>, log |-> "none", key_info |-> -1, key_read |-> -1,
   info_type |-> -1,
   \* the type tag and the two bytes decode_smc_float was given
   dec_tag |-> -1, dec_d0 |-> -1, dec_d1 |-> -1,
   \* of get_system_power_info, for the properties only: the result and the
   \* value of each get_smc_float it has made
   reads |-> <<>>,
   \* get_system_power_info: its argument, its success and the read it is at
   power_null |-> FALSE, power |-> ZeroPower, all_success |-> FALSE,
   stage |-> 0,
   \* the handle the call found when it tested the connection
   conn_seen |-> -1,
   \* the operations on a caller's connection: arguments, result code,
   \* the error record copied out, and the options that had opened the
   \* connection the call looked at
   conn_null |-> FALSE, options_null |-> FALSE, options |-> NoOptions,
   code |-> SMC_SUCCESS, error |-> NoError, opened_seen |-> NoOptions]

(***************************************************************************)
(* decode_smc_float: the value of the first two payload bytes under the    *)
(* reported type tag, as an exact fraction (every result has at most 16    *)
(* significant bits, so the float arithmetic of the code is exact).        *)
(***************************************************************************)
SmcTypes == {SMC_TYPE_FP1F, SMC_TYPE_FP4C, SMC_TYPE_FP5B, SMC_TYPE_FP6A,
             SMC_TYPE_FP79, SMC_TYPE_FP88, SMC_TYPE_FPA6, SMC_TYPE_FPC4,
             SMC_TYPE_FPE2}

\* uint16_t value = (data[0] << 8) | data[1]
Value16(d0, d1) == d0 * 256 + d1

\* A decoder whose result depends on the handle of the connection (to test
\* the properties, not the program).
decode_by_connection(keyInfo, d0, d1) ==
  Rat(Value16(d0, d1) + g_smc_conn.connection, 256)

\* A decoder without the default case, which takes an unknown tag for FP4C
\* (to test the properties, not the program).
decode_no_default(keyInfo, d0, d1) == Rat(Value16(d0, d1), 4096)

\* A decoder that takes the whole second byte as the fraction of 256 for
\* every tag (to test the properties, not the program).
decode_whole_byte(keyInfo, d0, d1) == RatAdd(Lit(d0), Rat(d1, 256))

decode_smc_float(keyInfo, d0, d1) ==
  CASE keyInfo = SMC_TYPE_FP1F -> RatAdd(Lit(d0), Rat(d1 % 128, 128))
    [] keyInfo = SMC_TYPE_FP4C -> Rat(Value16(d0, d1), 4096)
    [] keyInfo = SMC_TYPE_FP5B -> Rat(Value16(d0, d1), 2048)
    [] keyInfo = SMC_TYPE_FP6A -> Rat(Value16(d0, d1), 1024)
    [] keyInfo = SMC_TYPE_FP79 -> Rat(Value16(d0, d1), 512)
    [] keyInfo = SMC_TYPE_FP88 -> RatAdd(Lit(d0), Rat(d1, 256))
    [] keyInfo = SMC_TYPE_FPA6 ->
         RatAdd(Lit(Value16(d0, d1) \div 64), Rat(Value16(d0, d1) % 64, 64))
    [] keyInfo = SMC_TYPE_FPC4 -> RatAdd(Lit(d0), Rat(d1 % 16, 16))
    [] keyInfo = SMC_TYPE_FPE2 -> RatAdd(Lit(d0), Rat(d1 % 4, 4))
    [] OTHER -> Lit(0)

(***************************************************************************)
(* The SMC client of power.c: init_smc, close_smc and get_smc_float on the *)
(* process-wide connection g_smc_conn.                                     *)
(***************************************************************************)
DecInit ==
  /\ dec = [called |-> FALSE, cmd_null |-> FALSE, keyInfo |-> 0, d0 |-> 0,
            d1 |-> 0, result |-> NoValue]
  /\ enc = [called |-> FALSE, key_str |-> <<0, 0, 0, 0>>, key |-> 0]

SmcInit ==
  /\ g_smc_conn = [connection |-> 0,
                   error |-> [code |-> SMC_SUCCESS,
                              severity |-> SMC_SEVERITY_INFO],
                   lock |-> NoThread,
                   limited_mode |-> FALSE]
  /\ power_keys = FALSE
  /\ io_open = {}
  /\ io_opened = 0
  /\ spc = [t \in SmcThreads |-> "idle"]
  /\ sfr = [t \in SmcThreads |-> NoSmcFrame]
  /\ user_conn = [connection |-> 0,
                  error |-> [code |-> SMC_SUCCESS,
                             severity |-> SMC_SEVERITY_INFO],
                  lock |-> NoThread,
                  limited_mode |-> FALSE,
                  \* the options of the init that opened it, for the
                  \* properties only
                  opened_with |-> NoOptions]

SSet(t, f) == sfr' = [sfr EXCEPT ![t] = f]
SGoto(t, l) == spc' = [spc EXCEPT ![t] = l]

\* "PC0", a key string of three characters
KEY_PC0 == <<80, 67, 48>>
ShortKeys == {KEY_PC0}

\* The four bytes read_smc_key reads at key_str: a string of three
\* characters is followed by its terminator.
KeyMemory(key_str) ==
  IF Len(key_str) < 4 THEN Append(key_str, 0) ELSE key_str

\* The encoding with the first character in the low byte (to test the
\* properties, not the program).
EncodeKeyLittleEndian(key_str) ==
  key_str[4] * 16777216 + key_str[3] * 65536 + key_str[2] * 256 + key_str[1]

\* (key_str[0] << 24) | (key_str[1] << 16) | (key_str[2] << 8) | key_str[3]:
\* the four fields do not overlap, their union is their sum.
EncodeKey(key_str) ==
  key_str[1] * 16777216 + key_str[2] * 65536 + key_str[3] * 256 + key_str[4]

\* IOConnectCallStructMethod(conn, 2, cmd, ..., cmd, ...): the commands the
\* call can leave in the buffer, or none when the kernel or the controller
\* fails it.  A handle the kernel does not hold open always fails.
Exchange(conn, cmd) ==
  IF conn \in io_open
    THEN {[ok |-> TRUE,
           cmd |-> [cmd EXCEPT !.key = IF r.key_kept THEN @ ELSE 0,
                               !.keyInfo = r.keyInfo, !.data = r.data]] :
            r \in Responses}
           \cup {[ok |-> FALSE, cmd |-> cmd]}
    ELSE {[ok |-> FALSE, cmd |-> cmd]}

\* bool get_smc_float(const char *key, float *value): the test of the
\* arguments and of the connection, made before the lock is taken.
GetFloatWith(t, keys) ==
  /\ spc[t] = "idle"
  /\ \E key \in keys, key_null \in BOOLEAN, value_null \in BOOLEAN :
       LET f == [NoSmcFrame EXCEPT !.op = "get_smc_float",
                   !.conn_seen = g_smc_conn.connection,
                   !.key = IF key_null THEN <<>> ELSE key,
                   !.key_null = key_null, !.value_null = value_null]
       IN IF key_null \/ value_null \/ g_smc_conn.connection = 0
            THEN SSet(t, [f EXCEPT !.ret = FALSE]) /\ SGoto(t, "ret")
            ELSE SSet(t, f) /\ SGoto(t, "lock")
  /\ UNCHANGED <<g_smc_conn, power_keys, io_open, io_opened>>
  /\ UNCHANGED <<cpuVars, decVars, user_conn>>

\* A call with a key of four characters.
CallGetFloat(t) == GetFloatWith(t, SmcKeys)

\* A call with a key of fewer than four characters.
CallGetFloatShort(t) == GetFloatWith(t, ShortKeys)

CallInitSmc(t) ==
  /\ spc[t] = "idle"
  /\ SSet(t, [NoSmcFrame EXCEPT !.op = "init_smc"])
  /\ SGoto(t, "lock")
  /\ UNCHANGED <<g_smc_conn, power_keys, io_open, io_opened>>
  /\ UNCHANGED <<cpuVars, decVars, user_conn>>

CallCloseSmc(t) ==
  /\ spc[t] = "idle"
  /\ SSet(t, [NoSmcFrame EXCEPT !.op = "close_smc"])
  /\ SGoto(t, "lock")
  /\ UNCHANGED <<g_smc_conn, power_keys, io_open, io_opened>>
  /\ UNCHANGED <<cpuVars, decVars, user_conn>>

\* A lock that does not wait (to test the properties, not the program).
SmcLockNoWait(t) ==
  /\ spc[t] = "lock"
  /\ g_smc_conn' = [g_smc_conn EXCEPT !.lock = t]
  /\ SGoto(t, CASE sfr[t].op \in ReadOps -> "info"
                 [] sfr[t].op = "init_smc" -> "init_body"
                 [] OTHER -> "close_body")
  /\ UNCHANGED <<power_keys, io_open, io_opened, sfr>>
  /\ UNCHANGED <<cpuVars, decVars, user_conn>>

\* os_unfair_lock_lock(&g_smc_conn.lock): waits until the lock is free.
SmcLock(t) ==
  /\ spc[t] = "lock"
  /\ g_smc_conn.lock = NoThread
  /\ g_smc_conn' = [g_smc_conn EXCEPT !.lock = t]
  /\ SGoto(t, CASE sfr[t].op \in ReadOps -> "info"
                 [] sfr[t].op = "init_smc" -> "init_body"
                 [] OTHER -> "close_body")
  /\ UNCHANGED <<power_keys, io_open, io_opened, sfr>>
  /\ UNCHANGED <<cpuVars, decVars, user_conn>>

\* A read that goes on to the second exchange whatever the first gave (to
\* test the properties, not the program).
AfterInfoAlways(ok) == "read"

\* if (result != KERN_SUCCESS) return false (317-320)
AfterInfo(ok) == IF ok THEN "read" ELSE "unlock"

\* get_smc_float clears its command and read_smc_key makes the first
\* exchange, SMC_CMD_READ_KEYINFO, on the handle it reads under the lock.
ReadKeyInfo(t) ==
  /\ spc[t] = "info"
  /\ LET conn == g_smc_conn.connection
         sent == [ZeroCmd EXCEPT !.key = EncodeKey(KeyMemory(sfr[t].key)),
                                 !.cmd = SMC_CMD_READ_KEYINFO,
                                 !.keyInfo = 0]
     IN \E x \in Exchange(conn, sent) :
          /\ SSet(t, [sfr[t] EXCEPT !.cmd = x.cmd, !.x_info = conn,
                                    !.success = x.ok,
                                    !.cmds = <<sent.cmd>>,
                                    !.key_info = sent.key,
                                    !.info_type =
                                       IF x.ok THEN x.cmd.keyInfo ELSE -1,
                                    !.log = IF x.ok THEN "none"
                                            ELSE "Failed to read key info"])
          /\ SGoto(t, AfterInfo(x.ok))
  /\ UNCHANGED <<g_smc_conn, power_keys, io_open, io_opened>>
  /\ UNCHANGED <<cpuVars, decVars, user_conn>>

\* The second exchange, SMC_CMD_READ_KEY, with keyInfo and data cleared.
ReadKeyValue(t) ==
  /\ spc[t] = "read"
  /\ LET conn == sfr[t].x_info
         sent == [sfr[t].cmd EXCEPT !.cmd = SMC_CMD_READ_KEY,
                                    !.keyInfo = 0,
                                    !.data = ZeroData]
     IN \E x \in Exchange(conn, sent) :
          /\ SSet(t, [sfr[t] EXCEPT !.cmd = x.cmd, !.x_read = conn,
                                    !.sent_data = sent.data,
                                    !.success = x.ok,
                                    !.cmds = Append(@, sent.cmd),
                                    !.key_read = sent.key,
                                    !.log = IF x.ok
                                      THEN "Successfully read key"
                                      ELSE "Failed to read key value"])
          /\ SGoto(t, IF x.ok THEN "decode" ELSE "unlock")
  /\ UNCHANGED <<g_smc_conn, power_keys, io_open, io_opened>>
  /\ UNCHANGED <<cpuVars, decVars, user_conn>>

\* if (success) *value = decode_smc_float(&cmd)
DecodeValue(t) ==
  /\ spc[t] = "decode"
  /\ SSet(t, [sfr[t] EXCEPT !.value =
         decode_smc_float(sfr[t].cmd.keyInfo, sfr[t].cmd.data[1],
                          sfr[t].cmd.data[2]),
                          !.dec_tag = sfr[t].cmd.keyInfo,
                          !.dec_d0 = sfr[t].cmd.data[1],
                          !.dec_d1 = sfr[t].cmd.data[2]])
  /\ SGoto(t, "unlock")
  /\ UNCHANGED <<g_smc_conn, power_keys, io_open, io_opened>>
  /\ UNCHANGED <<cpuVars, decVars, user_conn>>

\* os_unfair_lock_unlock(&g_smc_conn.lock) and the return.
SmcUnlock(t) ==
  /\ spc[t] = "unlock"
  /\ g_smc_conn' = [g_smc_conn EXCEPT !.lock = NoThread]
  /\ SSet(t, [sfr[t] EXCEPT !.ret = sfr[t].success, !.cmd = ZeroCmd,
                            !.sent_data = ZeroData])
  /\ SGoto(t, IF sfr[t].op = "get_system_power_info" THEN "pi_done"
                                                      ELSE "ret")
  /\ UNCHANGED <<power_keys, io_open, io_opened>>
  /\ UNCHANGED <<cpuVars, decVars, user_conn>>

\* An init_power_source_keys that can fail (to test the properties, not the
\* program).
init_power_source_keys_failing == BOOLEAN

\* bool init_power_source_keys(void): the results it can return; it assigns
\* the ten constant strings and returns true (68-80).
init_power_source_keys == {TRUE}

\* A failed init that only records the error (to test the properties, not
\* the program).
FailedInitKeepsHandle(code) ==
  [g_smc_conn EXCEPT !.error = [code |-> code, severity |-> 2]]

\* init_smc_with_options records the error and returns its code (222-227,
\* 236-241); init_smc then resets the handle and the limited flag (345-348).
FailedInit(code) ==
  [g_smc_conn EXCEPT !.error = [code |-> code, severity |-> 2],
                     !.connection = 0, !.limited_mode = FALSE]

\* init_smc under the lock: init_smc_with_options with limited mode and
\* key skipping off, then the reset of the connection when it failed.
\* IOServiceOpen stores the handle only when it succeeds.
InitSmcBody(t) ==
  /\ spc[t] = "init_body"
  /\ \/ \* no AppleSMC service
        /\ g_smc_conn' = FailedInit(SMC_ERROR_NO_SERVICE)
        /\ SSet(t, [sfr[t] EXCEPT !.success = FALSE])
        /\ SGoto(t, "unlock")
        /\ UNCHANGED <<power_keys, io_open, io_opened>>
     \/ \* IOServiceOpen fails
        /\ g_smc_conn' = FailedInit(SMC_ERROR_OPEN_FAILED)
        /\ SSet(t, [sfr[t] EXCEPT !.success = FALSE])
        /\ SGoto(t, "unlock")
        /\ UNCHANGED <<power_keys, io_open, io_opened>>
     \/ \* IOServiceOpen succeeds, then init_power_source_keys (248-249)
        /\ io_opened < MaxOpens
        /\ io_opened' = io_opened + 1
        /\ io_open' = io_open \cup {io_opened + 1}
        /\ \E keys_ok \in init_power_source_keys :
             IF keys_ok
               THEN /\ g_smc_conn' = [g_smc_conn EXCEPT
                          !.connection = io_opened + 1,
                          !.limited_mode = FALSE,
                          !.error = [code |-> SMC_SUCCESS, severity |-> 0]]
                    /\ power_keys' = TRUE
                    /\ SSet(t, [sfr[t] EXCEPT !.success = TRUE])
                    /\ SGoto(t, "unlock")
               ELSE \* cleanup_smc_connection(conn) comes to its
                    \* os_unfair_lock_lock(&conn->lock) (250, 555)
                    /\ g_smc_conn' = [g_smc_conn EXCEPT
                          !.connection = io_opened + 1,
                          !.limited_mode = FALSE]
                    /\ SGoto(t, "cleanup_lock")
                    /\ UNCHANGED <<power_keys, sfr>>
  /\ UNCHANGED <<cpuVars, decVars, user_conn>>

\* A close that leaves the handle stored (to test the properties, not the
\* program).
ClosedConnKeepsHandle ==
  [g_smc_conn EXCEPT !.error = [code |-> SMC_SUCCESS,
                                severity |-> SMC_SEVERITY_INFO]]

\* The reset of the connection after IOServiceClose succeeded (372-375).
ClosedConn ==
  [g_smc_conn EXCEPT !.connection = 0,
                     !.error = [code |-> SMC_SUCCESS,
                                severity |-> SMC_SEVERITY_INFO]]

\* A test that takes every connection for open (to test the properties,
\* not the program).
HasHandleAlways == TRUE

\* if (g_smc_conn.connection != 0) (357)
HasHandle == g_smc_conn.connection # 0

\* close_smc under the lock.
CloseSmcBody(t) ==
  /\ spc[t] = "close_body"
  /\ IF HasHandle
       THEN \/ \* IOServiceClose fails
               /\ g_smc_conn' = [g_smc_conn EXCEPT
                      !.error = [code |-> SMC_ERROR_INIT_FAILED,
                                 severity |-> SMC_SEVERITY_ERROR]]
               /\ SSet(t, [sfr[t] EXCEPT !.success = FALSE,
                      !.conn_seen = g_smc_conn.connection])
               /\ UNCHANGED <<power_keys, io_open>>
            \/ \* IOServiceClose succeeds
               /\ g_smc_conn.connection \in io_open
               /\ io_open' = io_open \ {g_smc_conn.connection}
               /\ power_keys' = IF g_smc_conn.limited_mode
                                  THEN power_keys ELSE FALSE
               /\ g_smc_conn' = ClosedConn
               /\ SSet(t, [sfr[t] EXCEPT !.success = TRUE,
                      !.conn_seen = g_smc_conn.connection])
       ELSE /\ SSet(t, [sfr[t] EXCEPT !.success = TRUE, !.conn_seen = 0])
            /\ UNCHANGED <<g_smc_conn, power_keys, io_open>>
  /\ SGoto(t, "unlock")
  /\ UNCHANGED io_opened
  /\ UNCHANGED <<cpuVars, decVars, user_conn>>

\* bool get_system_power_info(system_power_t *power): the test of the
\* argument and of the connection (151-153).
CallPowerInfo(t) ==
  /\ spc[t] = "idle"
  /\ \E power_null \in BOOLEAN, buf \in PowerBufs :
       LET f == [NoSmcFrame EXCEPT !.op = "get_system_power_info",
                   !.conn_seen = g_smc_conn.connection,
                   !.power_null = power_null, !.power = buf]
       IN IF power_null \/ g_smc_conn.connection = 0
            THEN SSet(t, [f EXCEPT !.ret = FALSE]) /\ SGoto(t, "ret")
            ELSE /\ SSet(t, [f EXCEPT !.all_success = TRUE, !.stage = 1])
                 /\ SGoto(t, "pi_call")
  /\ UNCHANGED <<g_smc_conn, power_keys, io_open, io_opened>>
  /\ UNCHANGED <<cpuVars, decVars, user_conn>>

\* A get_system_power_info that returns the result of its last read (to
\* test the properties, not the program).
PowerInfoTakeLast(f, ok) ==
  LET p == IF ~ok THEN f.power
           ELSE IF f.stage = 1 THEN [f.power EXCEPT !.cpu_power = f.value]
           ELSE [f.power EXCEPT !.gpu_power = f.value]
      g == [f EXCEPT !.power = p, !.all_success = ok,
                     !.reads = Append(@, [ok |-> ok, value |-> f.value])]
  IN IF f.stage = 1
       THEN [g EXCEPT !.stage = 2]
       ELSE [g EXCEPT !.stage = 3,
                      !.power = [p EXCEPT !.total_power =
                                    RatAdd(p.cpu_power, p.gpu_power)],
                      !.ret = g.all_success]

\* What get_system_power_info does with the result of one read (159-170),
\* and after the second the sum and the return (173-174).
PowerInfoTake(f, ok) ==
  LET p == IF ~ok THEN f.power
           ELSE IF f.stage = 1 THEN [f.power EXCEPT !.cpu_power = f.value]
           ELSE [f.power EXCEPT !.gpu_power = f.value]
      g == [f EXCEPT !.power = p, !.all_success = f.all_success /\ ok,
                     !.reads = Append(@, [ok |-> ok, value |-> f.value])]
  IN IF f.stage = 1
       THEN [g EXCEPT !.stage = 2]
       ELSE [g EXCEPT !.stage = 3,
                      !.power = [p EXCEPT !.total_power =
                                    RatAdd(p.cpu_power, p.gpu_power)],
                      !.ret = g.all_success]

\* get_system_power_info calls get_smc_float for SMC_KEY_CPU_POWER, then for
\* SMC_KEY_GPU_POWER: the test of the connection inside get_smc_float.
PowerInfoCall(t) ==
  /\ spc[t] = "pi_call"
  /\ LET f == [sfr[t] EXCEPT
                 !.key = IF sfr[t].stage = 1 THEN KEY_PC0C ELSE KEY_PCGC,
                 !.x_info = -1, !.x_read = -1, !.success = FALSE,
                 !.cmds = <<>>, !.log = "none", !.key_info = -1,
                 !.key_read = -1, !.info_type = -1, !.dec_tag = -1,
                 !.dec_d0 = -1, !.dec_d1 = -1]
     IN IF g_smc_conn.connection = 0
          THEN LET g == PowerInfoTake(f, FALSE)
               IN /\ SSet(t, g)
                  /\ SGoto(t, IF g.stage = 3 THEN "ret" ELSE "pi_call")
          ELSE SSet(t, f) /\ SGoto(t, "lock")
  /\ UNCHANGED <<g_smc_conn, power_keys, io_open, io_opened>>
  /\ UNCHANGED <<cpuVars, decVars, user_conn>>

\* get_smc_float has returned into get_system_power_info.
PowerInfoDone(t) ==
  /\ spc[t] = "pi_done"
  /\ LET g == PowerInfoTake(sfr[t], sfr[t].success)
     IN /\ SSet(t, g)
        /\ SGoto(t, IF g.stage = 3 THEN "ret" ELSE "pi_call")
  /\ UNCHANGED <<g_smc_conn, power_keys, io_open, io_opened>>
  /\ UNCHANGED <<cpuVars, decVars, user_conn>>

(***************************************************************************)
(* The operations that take a connection from the caller (g_smc_conn is    *)
(* static, so callers pass one of their own): init_smc_with_options, whose *)
(* caller holds the lock of the connection as its contract asks,           *)
(* is_smc_limited_mode, get_smc_error_info and cleanup_smc_connection,     *)
(* which lock it themselves.                                               *)
(***************************************************************************)
ConnOps == {"init_smc_with_options", "is_smc_limited_mode",
            "get_smc_error_info", "cleanup_smc_connection"}

\* A call with a NULL connection returns at once (214-216, 267-268,
\* 276-277, 552-553); so does get_smc_error_info with a NULL error.
CallConnOp(t) ==
  /\ spc[t] = "idle"
  /\ \E op \in ConnOps, conn_null \in BOOLEAN, arg_null \in BOOLEAN,
        options \in InitOptions :
       /\ op # "init_smc_with_options" => options = NoOptions
       /\ op \in {"is_smc_limited_mode", "cleanup_smc_connection"}
            => ~arg_null
       /\ LET f == [NoSmcFrame EXCEPT !.op = op, !.conn_null = conn_null,
                                      !.options_null = arg_null,
                                      !.options = options]
          IN IF conn_null \/ (op = "get_smc_error_info" /\ arg_null)
               THEN /\ SSet(t, [f EXCEPT !.code =
                          IF op = "init_smc_with_options"
                            THEN SMC_ERROR_INVALID_ARGS ELSE SMC_SUCCESS])
                    /\ SGoto(t, "ret")
               ELSE SSet(t, f) /\ SGoto(t, "u_lock")
  /\ UNCHANGED <<g_smc_conn, power_keys, io_open, io_opened, user_conn>>
  /\ UNCHANGED <<cpuVars, decVars>>

\* os_unfair_lock_lock(&conn->lock)
UserLock(t) ==
  /\ spc[t] = "u_lock"
  /\ user_conn.lock = NoThread
  /\ user_conn' = [user_conn EXCEPT !.lock = t]
  /\ SGoto(t, "u_body")
  /\ UNCHANGED <<g_smc_conn, power_keys, io_open, io_opened, sfr>>
  /\ UNCHANGED <<cpuVars, decVars>>

\* int init_smc_with_options(conn, options), 212-264.
InitWithOptions(t) ==
  /\ spc[t] = "u_body" /\ sfr[t].op = "init_smc_with_options"
  /\ \/ \* !options
        /\ sfr[t].options_null
        /\ SSet(t, [sfr[t] EXCEPT !.code = SMC_ERROR_INVALID_ARGS])
        /\ SGoto(t, "u_unlock")
        /\ UNCHANGED <<user_conn, power_keys, io_open, io_opened>>
     \/ \* no AppleSMC service
        /\ ~sfr[t].options_null
        /\ user_conn' = [user_conn EXCEPT
               !.error = [code |-> SMC_ERROR_NO_SERVICE, severity |-> 2]]
        /\ SSet(t, [sfr[t] EXCEPT !.code = SMC_ERROR_NO_SERVICE])
        /\ SGoto(t, "u_unlock")
        /\ UNCHANGED <<power_keys, io_open, io_opened>>
     \/ \* IOServiceOpen fails
        /\ ~sfr[t].options_null
        /\ user_conn' = [user_conn EXCEPT
               !.error = [code |-> SMC_ERROR_OPEN_FAILED, severity |-> 2]]
        /\ SSet(t, [sfr[t] EXCEPT !.code = SMC_ERROR_OPEN_FAILED])
        /\ SGoto(t, "u_unlock")
        /\ UNCHANGED <<power_keys, io_open, io_opened>>
     \/ \* IOServiceOpen succeeds; the options are applied
        /\ ~sfr[t].options_null
        /\ io_opened < MaxOpens
        /\ io_opened' = io_opened + 1
        /\ io_open' = io_open \cup {io_opened + 1}
        /\ \E keys_ok \in init_power_source_keys :
             IF keys_ok \/ sfr[t].options.skip_power_keys
                        \/ sfr[t].options.allow_limited_mode
               THEN /\ user_conn' = [user_conn EXCEPT
                          !.connection = io_opened + 1,
                          !.limited_mode =
                             sfr[t].options.allow_limited_mode,
                          !.error = [code |-> SMC_SUCCESS, severity |-> 0],
                          !.opened_with = sfr[t].options]
                    /\ power_keys' =
                         IF ~sfr[t].options.skip_power_keys
                            /\ ~sfr[t].options.allow_limited_mode
                           THEN TRUE ELSE power_keys
                    /\ SSet(t, [sfr[t] EXCEPT !.code = SMC_SUCCESS])
                    /\ SGoto(t, "u_unlock")
               ELSE \* cleanup_smc_connection(conn) comes to its
                    \* os_unfair_lock_lock(&conn->lock) (250, 555)
                    /\ user_conn' = [user_conn EXCEPT
                          !.connection = io_opened + 1,
                          !.limited_mode = FALSE,
                          !.opened_with = sfr[t].options]
                    /\ SGoto(t, "u_cleanup_lock")
                    /\ UNCHANGED <<power_keys, sfr>>
  /\ UNCHANGED g_smc_conn
  /\ UNCHANGED <<cpuVars, decVars>>

\* bool limited = conn->limited_mode (280)
IsLimitedBody(t) ==
  /\ spc[t] = "u_body" /\ sfr[t].op = "is_smc_limited_mode"
  /\ SSet(t, [sfr[t] EXCEPT !.ret = user_conn.limited_mode,
                            !.conn_seen = user_conn.connection,
                            !.opened_seen = user_conn.opened_with])
  /\ SGoto(t, "u_unlock")
  /\ UNCHANGED <<g_smc_conn, power_keys, io_open, io_opened, user_conn>>
  /\ UNCHANGED <<cpuVars, decVars>>

\* *error = conn->error (271)
ErrorInfoBody(t) ==
  /\ spc[t] = "u_body" /\ sfr[t].op = "get_smc_error_info"
  /\ SSet(t, [sfr[t] EXCEPT !.error = user_conn.error])
  /\ SGoto(t, "u_unlock")
  /\ UNCHANGED <<g_smc_conn, power_keys, io_open, io_opened, user_conn>>
  /\ UNCHANGED <<cpuVars, decVars>>

\* cleanup_smc_connection under the lock (557-571); the result of
\* IOServiceClose is not looked at.
CleanupConnBody(t) ==
  /\ spc[t] = "u_body" /\ sfr[t].op = "cleanup_smc_connection"
  /\ \/ io_open' = io_open \ {user_conn.connection}
     \/ user_conn.connection # 0 /\ UNCHANGED io_open
  /\ power_keys' = IF user_conn.limited_mode THEN power_keys ELSE FALSE
  /\ user_conn' = [user_conn EXCEPT
         !.connection = 0,
         !.error = [code |-> SMC_SUCCESS, severity |-> 0]]
  /\ SGoto(t, "u_unlock")
  /\ UNCHANGED <<g_smc_conn, io_opened, sfr>>
  /\ UNCHANGED <<cpuVars, decVars>>

\* os_unfair_lock_unlock(&conn->lock)
UserUnlock(t) ==
  /\ spc[t] = "u_unlock"
  /\ user_conn' = [user_conn EXCEPT !.lock = NoThread]
  /\ SGoto(t, "ret")
  /\ UNCHANGED <<g_smc_conn, power_keys, io_open, io_opened, sfr>>
  /\ UNCHANGED <<cpuVars, decVars>>

\* The caller takes the result.
SmcReturn(t) ==
  /\ spc[t] = "ret"
  /\ SSet(t, NoSmcFrame)
  /\ SGoto(t, "idle")
  /\ UNCHANGED <<g_smc_conn, power_keys, io_open, io_opened>>
  /\ UNCHANGED <<cpuVars, decVars, user_conn>>

\* Any thread may call any operation at any time.
Next ==
  \E t \in Threads :
    \/ Step(t, ConcCfg)
    \/ ComputeFault(t)
Init == CpuInit /\ SmcInit /\ DecInit
Spec == Init /\ [][Next]_vars

\* The same with a mutex that can fail to lock.
NextFail ==
  \E t \in Threads :
    \/ Step(t, ConcCfg)
    \/ ComputeFault(t)
    \/ LockFail(t)
SpecFail == Init /\ [][NextFail]_vars

\* The sampler over an unbounded run: sample operations and
\* cleanup_cpu_stats, no init_cpu_stats.  The memory of a released buffer is
\* handed out again, and the depth of the recursion is counted up to
\* LiveDepth only.
Unreferenced(b) ==
  /\ vm[b].frees > 0
  /\ prev_info_array # b
  /\ \A u \in Threads : fr[u].info_array # b /\ fr[u].prev_cpu_load # b

\* host_processor_info succeeds (cpu.c 176-178, 294-296): the buffer is new
\* memory, or memory that vm_deallocate has released before.
QueryLive(t, cfg) ==
  /\ Live(t) /\ pc[t] = "query"
  /\ \E snap \in cfg.snaps :
       LET cnt == NCPU * CPU_STATE_MAX
           buf == [ticks |-> snap, count |-> cnt,
                   bytes |-> cnt * SizeofNatural,
                   released |-> 0, frees |-> 0, at |-> clock]
           old == {b \in 1..Len(vm) : Unreferenced(b)}
       IN /\ IF old # {}
               THEN LET b == CHOOSE c \in old : \A d \in old : c <= d
                    IN /\ vm' = [vm EXCEPT ![b] = buf]
                       /\ Set(t, [fr[t] EXCEPT !.info_array = b,
                                               !.info_count = cnt])
               ELSE /\ Len(vm) < cfg.maxb
                    /\ vm' = Append(vm, buf)
                    /\ Set(t, [fr[t] EXCEPT !.info_array = Len(vm) + 1,
                                            !.info_count = cnt])
          /\ num_cpus' = NCPU
  /\ Goto(t, "check")
  /\ UNCHANGED <<prev_info_array, prev_info_count, cpu_mutex, clock, crashed>>
  /\ UNCHANGED <<smcVars, decVars>>

\* usleep(500000) returns and the call re-invokes itself (cpu.c 193-195,
\* 311-312).
SleepLive(t, cfg) ==
  /\ Live(t) /\ pc[t] = "sleep"
  /\ clock' = clock + cfg.nap
  /\ Set(t, [fr[t] EXCEPT !.depth = Min(@ + 1, LiveDepth),
                          !.info_array = NULL, !.info_count = 0])
  /\ Goto(t, "lock")
  /\ UNCHANGED <<prev_info_array, prev_info_count, num_cpus, cpu_mutex, vm,
                 crashed>>
  /\ UNCHANGED <<smcVars, decVars>>

\* The steps of a call that is under way, but for the lock.
Run(t) ==
  \/ QueryLive(t, ConcCfg)
  \/ QueryFail(t)
  \/ Check(t, ConcCfg)
  \/ PrimeUnlock(t)
  \/ SleepLive(t, ConcCfg)
  \/ Compute(t, ConcCfg)
  \/ Swap(t, ConcCfg)
  \/ Unlock(t)
  \/ CleanupBody(t, ConcCfg)
  \/ CleanupUnlock(t)

NextLive ==
  \E t \in Threads :
    \/ CallSample(t, ConcCfg)
    \/ CallCleanup(t, ConcCfg)
    \/ Lock(t)
    \/ Run(t)

\* Fair scheduling: a thread that can take a step of its call takes one, and
\* a thread waiting for the mutex gets it if it is free again and again.
\* No thread has to make a call.
LiveFairness ==
  \A t \in Threads : WF_vars(Run(t)) /\ SF_vars(Lock(t))
SpecLive == Init /\ [][NextLive]_vars /\ LiveFairness

\* One caller at a time, with tick data and the settle time.  (A single
\* caller never reads a released buffer: ComputeFault is not enabled.)
NextSeq ==
  \E t \in SeqThreads : Step(t, SeqCfg)
SpecSeq == Init /\ [][NextSeq]_vars

\* Any thread may call any operation of the SMC client at any time.
NextSmc ==
  \E t \in SmcThreads :
    \/ CallGetFloat(t)
    \/ CallInitSmc(t)
    \/ CallCloseSmc(t)
    \/ SmcLock(t)
    \/ ReadKeyInfo(t)
    \/ ReadKeyValue(t)
    \/ DecodeValue(t)
    \/ InitSmcBody(t)
    \/ CloseSmcBody(t)
    \/ SmcUnlock(t)
    \/ SmcReturn(t)
SpecSmc == Init /\ [][NextSmc]_vars

\* The same with key strings of fewer than four characters.
NextShort ==
  \E t \in SmcThreads :
    \/ CallGetFloatShort(t)
    \/ CallInitSmc(t)
    \/ CallCloseSmc(t)
    \/ SmcLock(t)
    \/ ReadKeyInfo(t)
    \/ ReadKeyValue(t)
    \/ DecodeValue(t)
    \/ InitSmcBody(t)
    \/ CloseSmcBody(t)
    \/ SmcUnlock(t)
    \/ SmcReturn(t)
SpecShort == Init /\ [][NextShort]_vars

\* One thread reads, through get_smc_float and get_system_power_info, while
\* another one opens and closes the connection.
Reader == 1
Manager == 2
NextPower ==
  \/ CallGetFloat(Reader)
  \/ CallPowerInfo(Reader)
  \/ PowerInfoCall(Reader)
  \/ PowerInfoDone(Reader)
  \/ ReadKeyInfo(Reader)
  \/ ReadKeyValue(Reader)
  \/ DecodeValue(Reader)
  \/ CallInitSmc(Manager)
  \/ CallCloseSmc(Manager)
  \/ InitSmcBody(Manager)
  \/ CloseSmcBody(Manager)
  \/ \E t \in SmcThreads :
       \/ SmcLock(t)
       \/ SmcUnlock(t)
       \/ SmcReturn(t)
SpecPower == Init /\ [][NextPower]_vars

\* Any thread may call any operation on the caller's connection.
NextConn ==
  \E t \in SmcThreads :
    \/ CallConnOp(t)
    \/ UserLock(t)
    \/ InitWithOptions(t)
    \/ IsLimitedBody(t)
    \/ ErrorInfoBody(t)
    \/ CleanupConnBody(t)
    \/ UserUnlock(t)
    \/ SmcReturn(t)
SpecConn == Init /\ [][NextConn]_vars

(***************************************************************************)
(* The decoder on its own: every tag with every pair of leading bytes.     *)
(***************************************************************************)
\* A tag that is none of the nine, as in power_test.c.
SMC_TYPE_INVALID == 305419896  \* 0x12345678
DecodeTags == SmcTypes \cup {SMC_TYPE_INVALID}
Bytes == 0..255

DecodeCall ==
  /\ ~dec.called
  /\ \E tag \in DecodeTags, d0 \in Bytes, d1 \in Bytes :
       dec' = [called |-> TRUE, cmd_null |-> FALSE, keyInfo |-> tag,
               d0 |-> d0, d1 |-> d1,
               result |-> decode_smc_float(tag, d0, d1)]
  /\ UNCHANGED <<cpuVars, smcVars, enc>>

\* decode_smc_float(NULL): if (!cmd) return 0.0f (428-431)
DecodeNull ==
  /\ ~dec.called
  /\ dec' = [dec EXCEPT !.called = TRUE, !.cmd_null = TRUE,
                        !.result = Lit(0)]
  /\ UNCHANGED <<cpuVars, smcVars, enc>>

NextDecode ==
  \/ DecodeCall
  \/ DecodeNull
SpecDecode == Init /\ [][NextDecode]_vars

(***************************************************************************)
(* The key encoding on its own: every string of four of these characters.  *)
(***************************************************************************)
\* ASCII characters: the least and the greatest, a space, and those of the
\* keys "PC0C" and "PCGC".
KeyChars == {1, 32, 48, 67, 71, 80, 126, 127}
KeyStrings == [1..4 -> KeyChars]

EncodeCall ==
  /\ ~enc.called
  /\ \E key_str \in KeyStrings :
       enc' = [called |-> TRUE, key_str |-> key_str,
               key |-> EncodeKey(key_str)]
  /\ UNCHANGED <<cpuVars, smcVars, dec>>
NextKey == EncodeCall
SpecKey == Init /\ [][NextKey]_vars

(***************************************************************************)
(* Properties of the sampler.                                              *)
(***************************************************************************)
\* Thread t is at a step that reads or writes prev_info_array,
\* prev_info_count or num_cpus.
Accessing(t) ==
  pc[t] \in {"query", "check", "compute", "swap", "cl_body", "in_store"}

\* Thread t has returned success from a sample operation.
Sampled(t) ==
  /\ pc[t] = "ret"
  /\ fr[t].op \in SampleOps
  /\ fr[t].ret = CPU_SUCCESS
  /\ ~fr[t].stats_null /\ ~fr[t].num_cores_null

IdleStats == CoreStats(Lit(0), Lit(0), Lit(100), Lit(0))

\* C1: no two threads are at the same time inside a section that reads or
\* writes the stored previous snapshot (prev_info_array, prev_info_count,
\* num_cpus).  init_cpu_stats writes all three without taking the mutex.
C1_AccessesSerialized ==
  \A t1, t2 \in Threads : t1 # t2 => ~(Accessing(t1) /\ Accessing(t2))

\* C3: one call to a sample operation waits at most once and re-invokes
\* itself at most once, whatever the other threads do.  A cleanup_cpu_stats
\* or init_cpu_stats during the wait makes the retry prime again.
C3_SingleRetry ==
  \A t \in Threads : fr[t].depth <= 1

\* C8: a thread in the settle-interval wait does not hold the sampler's
\* mutex.
C8_NoGuardWhileSleeping ==
  \A t \in Threads : pc[t] = "sleep" => cpu_mutex # t

\* A thread sleeps on the priming path while another one holds the mutex
\* inside its own sample.
C8_Witness ==
  \E t, u \in Threads :
    /\ pc[t] = "sleep" /\ fr[t].op \in SampleOps
    /\ u # t /\ cpu_mutex = u /\ pc[u] = "compute" /\ fr[u].op \in SampleOps

\* Of the sample thread t returned from: the cores its loop covered, the
\* difference of one counter of core i between the two snapshots it used,
\* their sum, and whether some counter of the core went down.
CoresOf(t) == 1..fr[t].ncores_used
DeltaOf(t, i, s) == fr[t].used_cur[i][s] - fr[t].used_prev[i][s]
TotalOf(t, i) ==
  DeltaOf(t, i, 1) + DeltaOf(t, i, 2) + DeltaOf(t, i, 3) + DeltaOf(t, i, 4)
Decreased(t, i) == \E s \in 1..CPU_STATE_MAX : DeltaOf(t, i, s) < 0

\* C5: a successful sample (get_cpu_stats as well as get_cpu_core_stats)
\* leaves idle = 100 and user = system = nice = 0 for every core whose four
\* tick deltas are zero, whatever the output buffer held before.
C5_ZeroTotalIdle ==
  \A t \in Threads :
    Sampled(t) =>
      \A i \in CoresOf(t) :
        (~Decreased(t, i) /\ TotalOf(t, i) = 0) => fr[t].stats[i] = IdleStats

\* C6: a core one of whose counters is lower in the current snapshot than
\* in the stored one is reported as the zero-total case, 100% idle.
C6_DecreaseIsIdle ==
  \A t \in Threads :
    Sampled(t) =>
      \A i \in CoresOf(t) : Decreased(t, i) => fr[t].stats[i] = IdleStats

\* C7: for every core with total = delta_user + delta_system + delta_idle +
\* delta_nice > 0 a successful sample reports delta_x / total * 100 for each
\* of the four states (deltas 10, 5, 85, 0 give 10, 5, 85, 0), and the four
\* percentages sum to 100.
C7_Percentages ==
  \A t \in Threads :
    Sampled(t) =>
      \A i \in CoresOf(t) :
        (~Decreased(t, i) /\ TotalOf(t, i) > 0) =>
          LET o == fr[t].stats[i]
              pct(s) == CASE s = 1 -> o.user [] s = 2 -> o.system
                          [] s = 3 -> o.idle [] OTHER -> o.nice
          IN /\ \A s \in 1..CPU_STATE_MAX :
                  pct(s).n * TotalOf(t, i) = 100 * DeltaOf(t, i, s) * pct(s).d
             /\ RatAdd(RatAdd(o.user, o.system), RatAdd(o.idle, o.nice))
                  = Lit(100)
             /\ (\A s \in 1..CPU_STATE_MAX :
                   DeltaOf(t, i, s) = <<10, 5, 85, 0>>[s])
                  => o = CoreStats(Lit(10), Lit(5), Lit(85), Lit(0))

\* A sample has reported 10, 5, 85, 0 for deltas 10, 5, 85, 0 into a buffer
\* that held other values.
C7_Witness ==
  \E t \in Threads : \E i \in CoresOf(t) :
    /\ Sampled(t)
    /\ fr[t].used_prev[i] = <<0, 0, 0, 0>> /\ fr[t].used_cur[i] = <<10, 5, 85, 0>>
    /\ fr[t].old_stats = StaleStats
    /\ fr[t].stats[i] = CoreStats(Lit(10), Lit(5), Lit(85), Lit(0))

\* C9: a sample call that found the sampler UNPRIMED returns success only
\* after it stored a baseline, waited, and captured the snapshot it took the
\* deltas from one full settle interval after the baseline.
C9_SettleElapsed ==
  \A t \in Threads :
    (Sampled(t) /\ fr[t].entry_prev = NULL) =>
      /\ fr[t].depth >= 1
      /\ fr[t].at_prev = fr[t].at_base
      /\ fr[t].at_cur - fr[t].at_base >= SETTLE_USEC

\* A first sample after a cleanup or init has primed again and returned.
C9_Witness ==
  \E t \in Threads :
    /\ Sampled(t) /\ fr[t].entry_prev = NULL /\ fr[t].depth = 1
    /\ fr[t].at_base > 0
    /\ fr[t].at_cur = fr[t].at_base + SETTLE_USEC

\* C10: after a successful sample the stored previous snapshot is the one
\* the call captured, whole, and the one stored before was released once
\* and in full.
C10_WholesaleReplace ==
  \A t \in Threads :
    Sampled(t) =>
      /\ prev_info_array = fr[t].captured
      /\ prev_info_count = vm[fr[t].captured].count
      /\ vm[fr[t].captured].frees = 0
      /\ vm[fr[t].captured].ticks = fr[t].used_cur
      /\ fr[t].old_prev # NULL
      /\ vm[fr[t].old_prev].frees = 1
      /\ vm[fr[t].old_prev].released >= vm[fr[t].old_prev].bytes

\* C11: a sample operation returns CPU_ERROR_MEMORY for a null output
\* buffer, CPU_ERROR_HOST_PROCESSOR_INFO when the tick query fails and
\* CPU_ERROR_MUTEX when pthread_mutex_lock fails, and after a failed lock
\* it does not enter the critical section.
C11_SampleErrors ==
  \A t \in Threads :
    fr[t].op \in SampleOps =>
      /\ (pc[t] = "ret" /\ (fr[t].stats_null \/ fr[t].num_cores_null))
           => fr[t].ret = CPU_ERROR_MEMORY
      /\ (pc[t] = "ret" /\ fr[t].query_failed /\ fr[t].lock_rc = 0)
           => fr[t].ret = CPU_ERROR_HOST_PROCESSOR_INFO
      /\ fr[t].lock_rc # 0 =>
           /\ ~Accessing(t)
           /\ pc[t] = "ret" /\ fr[t].ret = CPU_ERROR_MUTEX

(***************************************************************************)
(* Properties of the SMC client.                                           *)
(***************************************************************************)
\* The exchanges a call of get_smc_float has made: the handles they went to.
Exchanged(t) == {sfr[t].x_info, sfr[t].x_read} \ {-1}

\* C2: get_smc_float never makes a controller exchange while the connection
\* is CLOSED (handle zero), whatever close_smc does concurrently: every
\* exchange goes to a nonzero handle, and a call that met the closed
\* connection returns failure.
C2_NoExchangeWhenClosed ==
  \A t \in SmcThreads :
    sfr[t].op = "get_smc_float" =>
      /\ 0 \notin Exchanged(t)
      /\ (spc[t] = "ret" /\ Exchanged(t) = {}) => ~sfr[t].ret

\* Thread t is inside the two-phase read of get_smc_float: from the info
\* exchange to the end of the read exchange.
InRead(t) == spc[t] \in {"info", "read"}

\* C12: at most one thread at a time is inside the two-phase read of
\* get_smc_float, and no step of init_smc or close_smc changes the device
\* handle while a thread is inside it.
C12_SmcSerialized ==
  /\ [](\A t1, t2 \in SmcThreads : t1 # t2 => ~(InRead(t1) /\ InRead(t2)))
  /\ [][(\E t \in SmcThreads : InRead(t))
         => g_smc_conn'.connection = g_smc_conn.connection]_vars

\* One thread is between its two exchanges while another one waits for the
\* lock in close_smc.
C12_Witness ==
  \E t, u \in SmcThreads :
    /\ spc[t] = "read" /\ g_smc_conn.lock = t
    /\ u # t /\ spc[u] = "lock" /\ sfr[u].op = "close_smc"

\* C13: when init_smc finds no service or the open fails it reports
\* failure and leaves the handle zero and the limited flag false; every
\* read that finds the connection so fails without an exchange, until an
\* init succeeds; a successful init leaves the connection OPEN.
C13_FailedInitUnusable ==
  /\ g_smc_conn.error.code \in {SMC_ERROR_NO_SERVICE, SMC_ERROR_OPEN_FAILED}
       => (g_smc_conn.connection = 0 /\ ~g_smc_conn.limited_mode)
  /\ \A t \in SmcThreads :
       /\ (sfr[t].op = "init_smc" /\ spc[t] = "unlock" /\ ~sfr[t].success)
            => g_smc_conn.error.code \in
                 {SMC_ERROR_NO_SERVICE, SMC_ERROR_OPEN_FAILED}
       /\ (sfr[t].op = "init_smc" /\ spc[t] = "ret")
            => sfr[t].ret = sfr[t].success
       /\ (sfr[t].op = "init_smc" /\ spc[t] = "unlock" /\ sfr[t].success)
            => /\ g_smc_conn.connection # 0
               /\ g_smc_conn.connection \in io_open
               /\ ~g_smc_conn.limited_mode
               /\ g_smc_conn.error.code = SMC_SUCCESS
       /\ (sfr[t].op \in ReadOps /\ spc[t] = "ret" /\ sfr[t].conn_seen = 0)
            => (~sfr[t].ret /\ Exchanged(t) = {})
       /\ (sfr[t].op \in ReadOps /\ spc[t] = "ret" /\ sfr[t].ret)
            => 0 \notin Exchanged(t)

\* After a connection had been open an init failed, and a
\* get_system_power_info that came later has returned failure.
C13_Witness ==
  /\ io_opened > 0
  /\ g_smc_conn.error.code = SMC_ERROR_OPEN_FAILED
  /\ g_smc_conn.lock = NoThread
  /\ spc[Reader] = "ret" /\ sfr[Reader].op = "get_system_power_info"
  /\ sfr[Reader].conn_seen = 0 /\ ~sfr[Reader].power_null
  /\ ~sfr[Reader].ret

\* C14: a successful init leaves the connection in LIMITED mode, as
\* is_smc_limited_mode reports it, only when its options had both
\* allow_limited_mode and skip_power_keys set, and OPEN otherwise.
C14_LimitedNeedsBoth ==
  /\ user_conn.connection # 0 =>
       (user_conn.limited_mode <=>
          (user_conn.opened_with.allow_limited_mode
           /\ user_conn.opened_with.skip_power_keys))
  /\ \A t \in SmcThreads :
       (sfr[t].op = "is_smc_limited_mode" /\ spc[t] = "ret"
        /\ ~sfr[t].conn_null /\ sfr[t].conn_seen # 0)
         => (sfr[t].ret <=>
               (sfr[t].opened_seen.allow_limited_mode
                /\ sfr[t].opened_seen.skip_power_keys))

\* C15: when close_smc has succeeded on an open connection, whatever inits
\* and closes came before, the handle it found has been closed and the
\* stored handle is zero, and no power-source key is held; it returns true.
C15_CloseReleases ==
  \A t \in SmcThreads :
    (sfr[t].op = "close_smc" /\ sfr[t].conn_seen > 0 /\ sfr[t].success) =>
      /\ spc[t] = "unlock" =>
           /\ g_smc_conn.connection = 0
           /\ sfr[t].conn_seen \notin io_open
           /\ ~power_keys
           /\ g_smc_conn.error.code = SMC_SUCCESS
      /\ spc[t] = "ret" => sfr[t].ret

\* A second close has succeeded on a connection that was opened, closed and
\* opened again.
C15_Witness ==
  \E t \in SmcThreads :
    /\ sfr[t].op = "close_smc" /\ spc[t] = "unlock" /\ sfr[t].success
    /\ sfr[t].conn_seen = 2 /\ io_open = {}

\* C16: close_smc on a CLOSED connection returns success, makes no device
\* call and leaves the handle, the error record, the limited flag and the
\* cached keys as they were.
C16_CloseClosedNoOp ==
  /\ [][\A t \in SmcThreads :
          (spc[t] = "close_body" /\ spc'[t] # "close_body"
           /\ g_smc_conn.connection = 0)
            => /\ g_smc_conn' = g_smc_conn
               /\ power_keys' = power_keys
               /\ io_open' = io_open /\ io_opened' = io_opened
               /\ sfr'[t].success]_vars
  /\ [](\A t \in SmcThreads :
          (sfr[t].op = "close_smc" /\ spc[t] = "ret" /\ sfr[t].conn_seen = 0)
            => sfr[t].ret)

\* A close has run on a connection that an earlier close had closed.
C16_Witness ==
  \E t \in SmcThreads :
    /\ sfr[t].op = "close_smc" /\ spc[t] = "ret" /\ sfr[t].conn_seen = 0
    /\ sfr[t].ret
    /\ io_opened = 1 /\ io_open = {} /\ g_smc_conn.connection = 0
    /\ g_smc_conn.error.code = SMC_SUCCESS

\* C17: read_smc_key sends the 'read key info' command first and the 'read
\* key' command only after the info exchange succeeded; a failed info exchange
\* ends the read with the failure that names the info phase and without a
\* read exchange, a failed read exchange ends it with the failure that names
\* the read phase, and either way get_smc_float returns false.
C17_TwoPhaseOrder ==
  \A t \in SmcThreads :
    LET f == sfr[t]
        info_failed == f.log = "Failed to read key info"
        read_failed == f.log = "Failed to read key value"
    IN /\ f.cmds \in {<<>>, <<SMC_CMD_READ_KEYINFO>>,
                      <<SMC_CMD_READ_KEYINFO, SMC_CMD_READ_KEY>>}
       /\ Len(f.cmds) = 2 => f.info_type # -1
       /\ info_failed <=> (Len(f.cmds) = 1 /\ f.info_type = -1)
       /\ info_failed => ~f.success /\ spc[t] \in {"unlock", "pi_done", "ret"}
       /\ read_failed <=> (Len(f.cmds) = 2 /\ ~f.success)
       /\ read_failed => spc[t] \in {"unlock", "pi_done", "ret"}
       /\ (f.op = "get_smc_float" /\ spc[t] = "ret"
             /\ (info_failed \/ read_failed)) => ~f.ret

\* A read whose info exchange failed has returned.
C17_Witness ==
  \E t \in SmcThreads :
    /\ sfr[t].op = "get_smc_float" /\ spc[t] = "ret"
    /\ sfr[t].log = "Failed to read key info"
    /\ sfr[t].cmds = <<SMC_CMD_READ_KEYINFO>>

\* C18: when read_smc_key sends the 'read key' command, the data of the
\* command is all zero and its key is the key sent with the 'read key info'
\* command, whatever the info exchange left in the command buffer.
C18_ReadCommandClean ==
  \A t \in SmcThreads :
    sfr[t].x_read # -1 =>
      /\ sfr[t].sent_data = ZeroData
      /\ sfr[t].key_read = sfr[t].key_info

\* C19: the type tag get_smc_float hands to decode_smc_float is the type the
\* controller reported for the key in the info exchange of the same read.
C19_DecodesInfoType ==
  \A t \in SmcThreads :
    sfr[t].dec_tag # -1 => sfr[t].dec_tag = sfr[t].info_type

(***************************************************************************)
(* Properties of the decoder.                                              *)
(***************************************************************************)
\* The fraction bits the name of a tag announces.
FractionBits(tag) ==
  CASE tag = SMC_TYPE_FP1F -> 15
    [] tag = SMC_TYPE_FP4C -> 12
    [] tag = SMC_TYPE_FP5B -> 11
    [] tag = SMC_TYPE_FP6A -> 10
    [] tag = SMC_TYPE_FP79 -> 9
    [] tag = SMC_TYPE_FP88 -> 8
    [] tag = SMC_TYPE_FPA6 -> 6
    [] tag = SMC_TYPE_FPC4 -> 4
    [] tag = SMC_TYPE_FPE2 -> 2

\* C4: for each of the nine tags and every pair of leading bytes b0, b1,
\* decode_smc_float returns (b0 * 256 + b1) / 2^f, f the fraction bits of
\* the tag.
C4_UniformDecode ==
  (dec.called /\ dec.keyInfo \in SmcTypes) =>
    dec.result = Rat(dec.d0 * 256 + dec.d1, 2 ^ FractionBits(dec.keyInfo))

\* The divisor of the fraction for the three tags decoded bytewise.
LowModulus(tag) ==
  CASE tag = SMC_TYPE_FP1F -> 128
    [] tag = SMC_TYPE_FPC4 -> 16
    [] tag = SMC_TYPE_FPE2 -> 4

\* The decoder was called with this tag and these two leading bytes.
Decoded(tag, b0, b1) ==
  dec.called /\ ~dec.cmd_null /\ dec.keyInfo = tag /\ dec.d0 = b0 /\ dec.d1 = b1

HalfOpenTags ==
  {SMC_TYPE_FP1F, SMC_TYPE_FP4C, SMC_TYPE_FP5B, SMC_TYPE_FP6A, SMC_TYPE_FP79}

\* The decoded value r lies in the range documented for the tag.
InDocumentedRange(tag, r) ==
  LET f == FractionBits(tag)
  IN /\ r.d > 0 /\ r.n >= 0
     /\ IF tag \in HalfOpenTags
          THEN r.n < (2 ^ (16 - f)) * r.d
          ELSE r.n * (2 ^ f) <= 65535 * r.d

\* C21: for every two-byte payload the value decode_smc_float returns lies
\* in the range documented for its tag: FP1F in [0, 2), FP4C in [0, 16),
\* FP5B in [0, 32), FP6A in [0, 64), FP79 in [0, 128), FP88 up to 65535/256,
\* FPA6 up to 65535/64, FPC4 up to 65535/16 and FPE2 up to 65535/4.
C21_DocumentedRange ==
  (dec.called /\ dec.keyInfo \in SmcTypes) =>
    InDocumentedRange(dec.keyInfo, dec.result)

\* A get_smc_float whose two exchanges succeeded and whose command came back
\* with a tag that is none of the nine returns true, with the value 0.
UnknownTagReadSucceeds ==
  \A t \in SmcThreads :
    (sfr[t].op = "get_smc_float" /\ spc[t] = "ret"
       /\ sfr[t].dec_tag # -1 /\ ~(sfr[t].dec_tag \in SmcTypes)) =>
      sfr[t].ret /\ sfr[t].value = Lit(0)

DecodeInput(t) == <<sfr[t].dec_tag, sfr[t].dec_d0, sfr[t].dec_d1>>

\* Thread t makes the call of decode_smc_float in this step.
DecodeStep(t) == spc[t] = "decode" /\ spc'[t] # "decode"

KeyBytes(key) ==
  <<(key \div 16777216) % 256, (key \div 65536) % 256,
    (key \div 256) % 256, key % 256>>

\* C24: for every key string of four ASCII characters, the key that
\* read_smc_key computes, split into four bytes most significant first,
\* gives the four characters back in order.
C24_KeyRoundTrip ==
  enc.called => KeyBytes(enc.key) = enc.key_str

\* The key of "PC0C" is 0x50433043.
C24_Witness ==
  enc.called /\ enc.key_str = KEY_PC0C /\ enc.key = 1346580547

\* C25: a key string of fewer than four characters is rejected:
\* get_smc_float fails for it without encoding a key and without sending any
\* command to the controller.
C25_ShortKeyRejected ==
  \A t \in SmcThreads :
    (sfr[t].op = "get_smc_float" /\ ~sfr[t].key_null
       /\ Len(sfr[t].key) < 4) =>
      /\ sfr[t].cmds = <<>>
      /\ sfr[t].key_info = -1
      /\ spc[t] = "ret" => ~sfr[t].ret

\* C26: get_system_power_info returns true exactly when the CPU-power read
\* and the GPU-power read both succeeded; when it returns true cpu_power and
\* gpu_power are the two values read and total_power is their sum; with a
\* null argument or a closed connection it returns false without a read.
C26_PowerInfo ==
  \A t \in SmcThreads :
    (sfr[t].op = "get_system_power_info" /\ spc[t] = "ret") =>
      LET f == sfr[t]
      IN IF f.power_null \/ f.conn_seen = 0
           THEN ~f.ret /\ f.reads = <<>> /\ f.cmds = <<>>
           ELSE /\ Len(f.reads) = 2
                /\ f.ret <=> (f.reads[1].ok /\ f.reads[2].ok)
                /\ f.ret =>
                     /\ f.power.cpu_power = f.reads[1].value
                     /\ f.power.gpu_power = f.reads[2].value
                     /\ f.power.total_power =
                          RatAdd(f.reads[1].value, f.reads[2].value)

\* A call has returned true with two values read that differ.
C26_Witness ==
  \E t \in SmcThreads :
    /\ sfr[t].op = "get_system_power_info" /\ spc[t] = "ret" /\ sfr[t].ret
    /\ sfr[t].power.cpu_power # sfr[t].power.gpu_power
    /\ sfr[t].power.total_power # Lit(0)

\* Thread t is outside every call of the sampler, or has returned from one.
CpuReturned(t) == pc[t] \in {"idle", "ret"}

\* Thread t is outside every call of the SMC client, or has returned.
SmcReturned(t) == spc[t] \in {"idle", "ret"}

CpuQuiescent == \A t \in Threads : CpuReturned(t)

\* Each snapshot buffer is released at most once.
ReleasedAtMostOnce == \A b \in 1..Len(vm) : vm[b].frees <= 1

\* No released buffer has been read.
NoReadAfterRelease == ~crashed /\ \A t \in Threads : ~fr[t].stale_read

\* At a quiescent point each buffer is the stored one or was released.
NoBufferDropped ==
  CpuQuiescent =>
    \A b \in 1..Len(vm) : b = prev_info_array \/ vm[b].frees > 0

\* C28: in every interleaving of sample, cleanup_cpu_stats and
\* init_cpu_stats calls each snapshot buffer obtained from the tick query is
\* released at most once, is never read after it was released, and is at
\* every quiescent point the stored previous snapshot or already released.
C28_BufferLifetime ==
  ReleasedAtMostOnce /\ NoReadAfterRelease /\ NoBufferDropped

\* At most one device handle is open.
AtMostOneOpen == Cardinality(io_open) <= 1

\* Every open handle is the one stored in the connection.
NoHandleDiscarded == \A h \in io_open : g_smc_conn.connection = h

\* C29: after any sequence of init_smc and close_smc calls at most one
\* device handle is open, and a handle that was opened is never discarded
\* without being closed: neither an init on an open connection nor an init
\* that fails overwrites or clears the stored handle of an open connection.
C29_OneHandle == AtMostOneOpen /\ NoHandleDiscarded

SampleFailed(t) ==
  /\ pc[t] = "ret" /\ fr[t].op \in SampleOps
  /\ fr[t].ret \in {CPU_ERROR_MEMORY, CPU_ERROR_HOST_PROCESSOR_INFO,
                    CPU_ERROR_MUTEX}

\* C31: whenever a sample operation returns an error code, the state of the
\* sampler is as it was when the call started: the stored previous snapshot
\* is the same buffer (so the sampler is primed exactly if it was) and the
\* output buffer of the caller has not been written.
C31_ErrorLeavesState ==
  \A t \in SeqThreads :
    SampleFailed(t) =>
      /\ prev_info_array = fr[t].entry_prev
      /\ fr[t].stats = fr[t].old_stats

\* Thread t is inside a call of a sample operation.
InSample(t) == fr[t].op \in SampleOps /\ ~CpuReturned(t)

\* C32: under fair scheduling, with tick queries and sleeps that always
\* return, every call to get_cpu_stats or get_cpu_core_stats eventually
\* returns, even while other threads keep calling sample operations and
\* cleanup_cpu_stats.
C32_SampleReturns ==
  \A t \in Threads : InSample(t) ~> (pc[t] = "ret")

\* Thread t takes the step of cleanup_cpu_stats or of init_cpu_stats that
\* stores NULL in prev_info_array.
ResetStep(t) ==
  \/ pc[t] = "cl_body" /\ pc'[t] = "cl_unlock"
  \/ pc[t] = "in_store" /\ pc'[t] = "ret"

\* C33: once the sampler is primed it stays primed across sample calls,
\* successful or failed: only a step of cleanup_cpu_stats or init_cpu_stats
\* empties the stored previous snapshot, and no step of a sample call does.
C33_StaysPrimed ==
  [][(prev_info_array # NULL /\ prev_info_array' = NULL) =>
       \E t \in Threads :
         /\ ResetStep(t)
         /\ fr[t].op \in {"cleanup_cpu_stats", "init_cpu_stats"}]_vars

\* A sample call has failed on a primed sampler, which is still primed, and
\* another one has succeeded.
C33_Witness ==
  \E t, u \in Threads :
    /\ SampleFailed(t) /\ fr[t].ret = CPU_ERROR_HOST_PROCESSOR_INFO
    /\ pc[u] = "ret" /\ fr[u].op \in SampleOps /\ fr[u].ret = CPU_SUCCESS
    /\ prev_info_array # NULL

=============================================================================
